---- MODULE Spec2Model ----
(***************************************************************************)
(* A model of the retrieval engine of the Law-Assistant repository:        *)
(*   - DocumentCache            (src/document_cache.py)                    *)
(*   - VectorStore              (src/processing.py, src/basicModel.py)     *)
(*   - process_pdf_directory    (src/basicModel.py)                        *)
(*   - AgentOrchestrator        (src/agents.py)                            *)
(* Each component has its own specification over the shared variables; the *)
(* variables of the other components stay at their initial values.         *)
(***************************************************************************)
EXTENDS Integers, Sequences, FiniteSets, TLC

VARIABLES
    \* ---- DocumentCache ----
    cache,        \* self.cache: key -> [contents, timestamp]
    now,          \* the value time.time() returns
    ticks,        \* how often the clock has advanced (bounds the model)
    puts,         \* history: file_path -> the last add_document for it,
                  \*   and what the path's earlier put was at that time
    unswept,      \* history: the cache as it would be had no sweep ever run
    sweep,        \* the clear_expired call in progress (concurrent runs)
    got,          \* the get_document call that has just returned, or NoCall
    \* ---- VectorStore ----
    index,        \* self.index: the stored embeddings, in insertion order
    metadata,     \* self.metadata
    adds,         \* history: the add_document calls that reached index.add
    owner,        \* history: owner[i] is the add call that stored index[i]
    thread,       \* each thread's position inside add_document
    found,        \* the search call that has just returned, or NoCall
    \* ---- AgentOrchestrator ----
    store,        \* self.vector_store: the persisted FAISS store
    retriever_k,  \* self.retriever.search_kwargs["k"]
    memory,       \* self.memory.chat_memory.messages
    call,         \* each in-flight answer() call
    started,      \* how many exchanges have been started (bounds the model)
    \* ---- the /chat route ----
    http,         \* each request thread's /chat request and its response
    upload_log,   \* history: the uploads written to UPLOAD_DIR and processed
    \* ---- QueryBuilder, NotesGenerator ----
    plan,         \* the get_and_process_query call that has just returned
    notes         \* the generate_notes call in progress

cacheVars == <<cache, now, ticks, puts, got, unswept, sweep>>
indexVars == <<index, metadata, adds, owner, thread, found>>
agentVars == <<store, retriever_k, memory, call, started>>
chatVars == <<http, upload_log>>
toolVars == <<plan, notes>>
vars == <<cache, now, ticks, puts, got, unswept, sweep,
          index, metadata, adds, owner, thread, found,
          store, retriever_k, memory, call, started,
          http, upload_log, plan, notes>>

NoCall == [op |-> "none"]
\* Python's None, and a value that is not None.
None == [none |-> TRUE]
Some(v) == [none |-> FALSE, value |-> v]

Min(a, b) == IF a < b THEN a ELSE b

(***************************************************************************)
(* hashlib.md5: a deterministic digest of a byte string.  Byte strings are *)
(* sequences of small numbers; the digest folds them (a stand-in with the  *)
(* one property the code relies on: equal bytes give equal digests, and    *)
(* the byte strings of the model give pairwise different digests).         *)
(***************************************************************************)
RECURSIVE md5fold(_, _)
md5fold(bytes, h) ==
    IF bytes = <<>> THEN h
    ELSE md5fold(Tail(bytes), (h * 31 + Head(bytes)) % 65521)

md5(bytes) == md5fold(bytes, 7)

(***************************************************************************)
(* Files: a path and the raw bytes stored under it.  a.pdf and b.pdf may   *)
(* hold the same bytes (a renamed copy).                                   *)
(***************************************************************************)
PathA == <<1, 9>>
PathB == <<2, 9>>
Paths == {PathA, PathB}
Bytes1 == <<5>>
Bytes2 == <<5, 6>>
FileBytes == {Bytes1, Bytes2}
Files == [path : Paths, bytes : FileBytes]

\* The extraction collaborator: raw bytes -> ordered page texts.  A text is
\* a small number; one page per byte.
Extract(bytes) == bytes

(***************************************************************************)
(*                            DocumentCache                                *)
(***************************************************************************)
ttl == 3600

MaxTicks == 3

\* The clock advances by one of these amounts between two calls.
ClockSteps == {1, ttl - 1, ttl + 1}

_get_key(file_path) == md5(file_path)

\* self.cache[key] = {...} on a dict c
set_item(c, key, contents) ==
    [k \in DOMAIN c \cup {key} |->
        IF k = key THEN [contents |-> contents, timestamp |-> now] ELSE c[k]]

\* A plausible slip: an entry that is already there is kept (setdefault).
add_document_KeepFirst(file_path, contents) ==
    LET key == _get_key(file_path)
    IN  IF key \in DOMAIN cache THEN cache ELSE set_item(cache, key, contents)

\* add_document: the cache after self.cache[key] = {...}
add_document(file_path, contents) ==
    set_item(cache, _get_key(file_path), contents)

\* A plausible slip: the expiry test is dropped.
get_document_NoExpiry(file_path) ==
    LET key == _get_key(file_path)
    IN  IF key \in DOMAIN cache THEN Some(cache[key].contents) ELSE None

\* get_document: the value returned
get_document(file_path) ==
    LET key == _get_key(file_path)
    IN  IF key \in DOMAIN cache /\ (now - cache[key].timestamp) < ttl
        THEN Some(cache[key].contents)
        ELSE None

\* What get_document would return had no clear_expired ever run.
get_document_unswept(file_path) ==
    LET key == _get_key(file_path)
    IN  IF key \in DOMAIN unswept /\ (now - unswept[key].timestamp) < ttl
        THEN Some(unswept[key].contents)
        ELSE None

\* A plausible slip: the sweep compares the age with half the time to live.
clear_expired_Eager ==
    LET expired == {k \in DOMAIN cache : (now - cache[k].timestamp) > ttl \div 2}
    IN  [k \in DOMAIN cache \ expired |-> cache[k]]

\* clear_expired: the cache after the sweep
clear_expired ==
    LET expired == {k \in DOMAIN cache : (now - cache[k].timestamp) > ttl}
    IN  [k \in DOMAIN cache \ expired |-> cache[k]]

AddDocument(f) ==
    /\ cache' = add_document(f.path, Extract(f.bytes))
    /\ unswept' = set_item(unswept, _get_key(f.path), Extract(f.bytes))
    /\ puts' = [p \in DOMAIN puts \cup {f.path} |->
                  IF p = f.path
                  THEN [bytes |-> f.bytes, at |-> now,
                        over |-> IF p \notin DOMAIN puts THEN "nothing"
                                 ELSE IF now - puts[p].at < ttl THEN "live"
                                 ELSE "expired"]
                  ELSE puts[p]]
    /\ got' = NoCall
    /\ UNCHANGED <<now, ticks, sweep>>
    /\ UNCHANGED <<indexVars, agentVars, chatVars, toolVars>>

GetDocument(f) ==
    /\ got' = [op |-> "get", file |-> f, result |-> get_document(f.path)]
    /\ UNCHANGED <<cache, now, ticks, puts, unswept, sweep>>
    /\ UNCHANGED <<indexVars, agentVars, chatVars, toolVars>>

ClearExpired ==
    /\ sweep.pc = "idle"
    /\ cache' = clear_expired
    /\ got' = [op |-> "sweep"]
    /\ UNCHANGED <<now, ticks, puts, unswept, sweep>>
    /\ UNCHANGED <<indexVars, agentVars, chatVars, toolVars>>

Tick(d) ==
    /\ ticks < MaxTicks
    /\ now' = now + d
    /\ ticks' = ticks + 1
    /\ got' = NoCall
    /\ UNCHANGED <<cache, puts, unswept, sweep>>
    /\ UNCHANGED <<indexVars, agentVars, chatVars, toolVars>>

\* clear_expired run by a thread of its own, one step at a time.  Line 30
\* reads the clock and line 31 starts iterating self.cache.items().
SweepStart ==
    /\ sweep.pc = "idle"
    /\ sweep' = [pc |-> "iterating", now |-> now,
                 size |-> Cardinality(DOMAIN cache),
                 todo |-> DOMAIN cache, expired |-> {}]
    /\ UNCHANGED <<cache, now, ticks, puts, got, unswept>>
    /\ UNCHANGED <<indexVars, agentVars, chatVars, toolVars>>

\* Line 31, one step of the dict iterator: it raises RuntimeError
\* (dictionary changed size during iteration) when the dict has grown
\* since the iteration began, ends when no key is left, and otherwise
\* tests the next entry against the clock value read at line 30.
SweepVisit ==
    /\ sweep.pc = "iterating"
    /\ IF Cardinality(DOMAIN cache) # sweep.size
       THEN sweep' = [sweep EXCEPT !.pc = "raised"]
       ELSE IF sweep.todo = {}
       THEN sweep' = [sweep EXCEPT !.pc = "delete"]
       ELSE \E k \in sweep.todo :
                sweep' = [sweep EXCEPT
                    !.todo = @ \ {k},
                    !.expired = IF (sweep.now - cache[k].timestamp) > ttl
                                THEN @ \cup {k} ELSE @]
    /\ UNCHANGED <<cache, now, ticks, puts, got, unswept>>
    /\ UNCHANGED <<indexVars, agentVars, chatVars, toolVars>>

\* Lines 32-33, one turn of the loop: del self.cache[k]
SweepDelete ==
    /\ sweep.pc = "delete"
    /\ sweep.expired # {}
    /\ \E k \in sweep.expired :
          IF k \in DOMAIN cache
          THEN /\ cache' = [j \in DOMAIN cache \ {k} |-> cache[j]]
               /\ sweep' = [sweep EXCEPT !.expired = @ \ {k}]
          ELSE /\ sweep' = [sweep EXCEPT !.pc = "raised"]
               /\ UNCHANGED cache
    /\ UNCHANGED <<now, ticks, puts, got, unswept>>
    /\ UNCHANGED <<indexVars, agentVars, chatVars, toolVars>>

\* The loop of lines 32-33 is over and clear_expired returns.
SweepReturn ==
    /\ sweep.pc = "delete"
    /\ sweep.expired = {}
    /\ sweep' = [pc |-> "idle", now |-> 0, size |-> 0, todo |-> {}, expired |-> {}]
    /\ UNCHANGED <<cache, now, ticks, puts, got, unswept>>
    /\ UNCHANGED <<indexVars, agentVars, chatVars, toolVars>>

CacheNext ==
    \/ \E f \in Files : AddDocument(f)
    \/ \E f \in Files : GetDocument(f)
    \/ ClearExpired
    \/ \E d \in ClockSteps : Tick(d)

(***************************************************************************)
(*                       Claims about DocumentCache                        *)
(***************************************************************************)
\* The get_document call that has just returned looked up this path.
GotPath == got.file.path

\* C1: for two documents with identical bytes, whatever their paths, the
\* cache key is the same: once one of them has been stored (and has not
\* expired), a lookup for the other is a hit returning the stored pages.
C1_DedupByContent ==
    got.op = "get" =>
        \A p \in DOMAIN puts :
            (puts[p].bytes = got.file.bytes /\ (now - puts[p].at) < ttl)
                => got.result = Some(Extract(got.file.bytes))

\* C6: an entry stored at time T is returned by get_document at every time
\* strictly before T + ttl and is absent (None) at every time strictly after
\* T + ttl, when no other put for that key came in between.
C6_RetrievableUntilExpiry ==
    (got.op = "get" /\ GotPath \in DOMAIN puts) =>
        LET T == puts[GotPath].at
        IN  /\ now < T + ttl => got.result = Some(Extract(puts[GotPath].bytes))
            /\ now > T + ttl => got.result = None

\* C6, its case: a lookup after the entry's time to live has passed.
C6_Witness ==
    /\ got.op = "get"
    /\ GotPath \in DOMAIN puts
    /\ now > puts[GotPath].at + ttl
    /\ got.result = None

\* C21: a put on a key that has an entry overwrites it and resets its
\* timestamp: every entry of the cache carries the contents and the time
\* of the most recent put of its key, an entry put less than ttl ago is
\* there, and a get less than ttl after the most recent put returns that
\* put's contents, whatever the age of the entry it replaced.
C21_LastPutWins ==
    /\ \A k \in DOMAIN cache :
          \E p \in DOMAIN puts :
              /\ _get_key(p) = k
              /\ cache[k] = [contents |-> Extract(puts[p].bytes),
                             timestamp |-> puts[p].at]
    /\ \A p \in DOMAIN puts :
          now - puts[p].at < ttl => _get_key(p) \in DOMAIN cache
    /\ (got.op = "get" /\ GotPath \in DOMAIN puts /\ now - puts[GotPath].at < ttl)
          => got.result = Some(Extract(puts[GotPath].bytes))

\* C21, its case: a key whose entry had expired was put again, and a get
\* almost a full ttl later returns the contents of the second put.
C21_Witness ==
    /\ got.op = "get"
    /\ GotPath \in DOMAIN puts
    /\ puts[GotPath].over = "expired"
    /\ now - puts[GotPath].at = ttl - 1
    /\ got.result = Some(Extract(puts[GotPath].bytes))

\* C22: clear_expired only does maintenance: a get returns what it would
\* return had no sweep ever run, and a sweep leaves no entry whose age
\* exceeds ttl.
C22_SweepIsMaintenanceOnly ==
    /\ got.op = "get" => got.result = get_document_unswept(got.file.path)
    /\ got.op = "sweep" =>
          \A k \in DOMAIN cache : now - cache[k].timestamp <= ttl

\* C22, its case: a get for a key whose entry a sweep has removed.
C22_Witness ==
    /\ got.op = "get"
    /\ _get_key(got.file.path) \in DOMAIN unswept
    /\ _get_key(got.file.path) \notin DOMAIN cache
    /\ got.result = None

\* C26: get_document and clear_expired agree on expiry: right after a
\* sweep, every entry still stored is one get_document returns.
C26_GetAndSweepAgree ==
    got.op = "sweep" =>
        \A p \in Paths :
            _get_key(p) \in DOMAIN cache => get_document(p) # None

\* add_document calls of other threads interleaved with the steps of one
\* clear_expired call.
ConcurrentCacheNext ==
    \/ \E f \in Files : AddDocument(f)
    \/ \E d \in ClockSteps : Tick(d)
    \/ SweepStart
    \/ SweepVisit
    \/ SweepDelete
    \/ SweepReturn

\* C24: whatever the interleaving of clear_expired with add_document
\* calls, the sweep ends without an error and removes no entry whose age
\* is within ttl: every path put at most ttl ago has its entry.
C24_SweepSparesFreshEntries ==
    /\ sweep.pc # "raised"
    /\ \A p \in DOMAIN puts :
          now - puts[p].at <= ttl => _get_key(p) \in DOMAIN cache

(***************************************************************************)
(*                             VectorStore                                 *)
(***************************************************************************)
Dimension == 384

\* The distance faiss reports for a neighbour slot it could not fill; its
\* label is -1.  (FLT_MAX in faiss; here the largest 32-bit integer.)
FLT_MAX == 2147483647

MaxVectors == 3
MaxK == 3

Threads == {1, 2}

\* A text is a small number.  What is passed as `text` is a str or a list
\* of str.
Str(t) == [str |-> TRUE, texts |-> <<t>>]
List(ts) == [str |-> FALSE, texts |-> ts]
AddInputs == {Str(5), Str(6), List(<<>>), List(<<6, 5>>)}
Queries == {5}
Ks == -1 .. MaxK

\* The metadata dict of one page.
PageMeta(filename, page, text) ==
    [doc_id |-> md5(filename) \div 16, filename |-> filename,
     page |-> page, doc_text |-> text]
Metas == {PageMeta(PathA, 1, 5), PageMeta(PathB, 2, 6)}

\* SentenceTransformer.encode of one text: a vector of Dimension numbers.
\* A vector is written by its dimension and its leading coordinates; the
\* coordinates after them are 0.
encode_one(t) == [dim |-> Dimension, lead |-> <<t, (t * t) % 7>>]

\* SentenceTransformer.encode: a str gives a 1-D array, a list of n > 0
\* texts an (n, Dimension) array, an empty list an empty 1-D array.
encode(text) ==
    IF text.str
    THEN [shape |-> <<Dimension>>, rows |-> <<encode_one(text.texts[1])>>]
    ELSE IF text.texts = <<>>
    THEN [shape |-> <<0>>, rows |-> <<>>]
    ELSE [shape |-> <<Len(text.texts), Dimension>>,
          rows |-> [i \in 1 .. Len(text.texts) |-> encode_one(text.texts[i])]]

\* ndarray.reshape(1, -1) of a 1-D array: one row holding every element.
reshape_row(a) ==
    [shape |-> <<1, a.shape[1]>>,
     rows |-> IF a.rows = <<>> THEN <<[dim |-> 0, lead |-> <<>>]>> ELSE a.rows]

\* add_document, lines 22-24: the array handed to index.add
embeddings_of(text) ==
    LET e == encode(text)
    IN  IF Len(e.shape) = 1 THEN reshape_row(e) ELSE e

\* faiss IndexFlatL2.add asserts that the rows have the index's dimension.
index_add_ok(x) == x.shape[2] = Dimension

\* A plausible slip: the metadata is appended once per call, not per row.
metadata_extend_Once(md, x, meta) == Append(md, meta)

\* add_document, line 26: self.metadata.extend([metadata]*len(embeddings))
metadata_extend(md, x, meta) == md \o [i \in 1 .. x.shape[1] |-> meta]

\* The VectorStore as a value: its two sequences and their histories.
TheStore ==
    [index |-> index, metadata |-> metadata, adds |-> adds, owner |-> owner,
     raised |-> FALSE]

\* A plausible slip: the metadata is extended before index.add is tried.
VectorStore_add_document_MetadataFirst(st, text, meta) ==
    LET x == embeddings_of(text)
    IN  IF index_add_ok(x)
        THEN [index |-> st.index \o x.rows,
              metadata |-> metadata_extend(st.metadata, x, meta),
              adds |-> Append(st.adds, [text |-> text, meta |-> meta]),
              owner |-> st.owner \o [i \in 1 .. Len(x.rows) |-> Len(st.adds) + 1],
              raised |-> FALSE]
        ELSE [st EXCEPT !.raised = TRUE,
                        !.metadata = metadata_extend(st.metadata, x, meta)]

\* add_document as a whole, on a store value st.  A failed index.add raises
\* before anything is stored.
VectorStore_add_document(st, text, meta) ==
    LET x == embeddings_of(text)
    IN  IF index_add_ok(x)
        THEN [index |-> st.index \o x.rows,
              metadata |-> metadata_extend(st.metadata, x, meta),
              adds |-> Append(st.adds, [text |-> text, meta |-> meta]),
              owner |-> st.owner \o [i \in 1 .. Len(x.rows) |-> Len(st.adds) + 1],
              raised |-> FALSE]
        ELSE [st EXCEPT !.raised = TRUE]

\* The squared L2 distance IndexFlatL2 reports (the coordinates after the
\* leading ones are 0 in both vectors).
RECURSIVE SumSq(_, _, _)
SumSq(v, w, i) ==
    IF i = 0 THEN 0
    ELSE (v[i] - w[i]) * (v[i] - w[i]) + SumSq(v, w, i - 1)

L2(v, w) == SumSq(v.lead, w.lead, Len(v.lead))

Raise(exc) == [raise |-> exc]

\* The ways to list the m nearest of the labels ls, nearest first, when
\* dist gives each label's distance (equal distances in any order).
RECURSIVE NearestFirst(_, _, _)
NearestFirst(ls, dist, m) ==
    IF m = 0 \/ ls = {} THEN {<<>>}
    ELSE LET nearest == {l \in ls : \A o \in ls : dist[l] <= dist[o]}
         IN  UNION {{<<l>> \o rest : rest \in NearestFirst(ls \ {l}, dist, m - 1)} :
                      l \in nearest}

\* faiss IndexFlatL2.search(xq, k) over the stored vectors idx: the possible
\* (labels, distances).  Labels count from 0.  The min(k, n) nearest come
\* first, by non-decreasing distance; the slots that cannot be filled carry
\* label -1 and distance FLT_MAX.  k = 0 is refused by newer faiss builds
\* and answered with empty arrays by older ones; a negative k is refused by
\* all.
faiss_search(idx, xq, k) ==
    IF xq.shape[2] # Dimension THEN {Raise("AssertionError")}
    ELSE IF k < 0 THEN {Raise("ValueError")}
    ELSE IF k = 0 THEN {Raise("AssertionError"), [raise |-> "", hits |-> <<>>]}
    ELSE
      LET n == Len(idx)
          q == xq.rows[1]
          dist == [l \in 0 .. n - 1 |-> L2(idx[l + 1], q)]
      IN  {[raise |-> "",
            hits |-> [i \in 1 .. k |->
                        IF i <= Len(o) THEN [label |-> o[i], distance |-> dist[o[i]]]
                        ELSE [label |-> -1, distance |-> FLT_MAX]]] :
             o \in NearestFirst(0 .. n - 1, dist, k)}

\* Python's list[i] for an int i: negative i counts from the end.
InRange(list, i) == -Len(list) <= i /\ i < Len(list)
Item(list, i) == IF i >= 0 THEN list[i + 1] ELSE list[Len(list) + i + 1]

\* search, lines 28-32: the possible outcomes, a list of (metadata, distance)
\* pairs or an exception.
VectorStore_search(query, k) ==
    LET xq == reshape_row(encode(Str(query)))
        pairs(r) ==
            IF r.raise # "" THEN r
            ELSE IF \E i \in 1 .. Len(r.hits) : ~InRange(metadata, r.hits[i].label)
            THEN Raise("IndexError")
            ELSE [raise |-> "",
                  value |-> [i \in 1 .. Len(r.hits) |->
                               [meta |-> Item(metadata, r.hits[i].label),
                                distance |-> r.hits[i].distance]]]
    IN  {pairs(r) : r \in faiss_search(index, xq, k)}

Install(st) ==
    /\ index' = st.index
    /\ metadata' = st.metadata
    /\ adds' = st.adds
    /\ owner' = st.owner

\* One add_document call, start to end.
Add(text, meta) ==
    LET st == VectorStore_add_document(TheStore, text, meta)
    IN  /\ Len(st.index) <= MaxVectors
        /\ Install(st)
        /\ found' = [op |-> "add", text |-> text, raised |-> st.raised]
        /\ UNCHANGED thread
        /\ UNCHANGED <<cacheVars, agentVars, chatVars, toolVars>>

\* One search call, start to end.
Search(query, k) ==
    /\ \E out \in VectorStore_search(query, k) :
          found' = [op |-> "search", query |-> query, k |-> k, out |-> out]
    /\ UNCHANGED <<index, metadata, adds, owner, thread>>
    /\ UNCHANGED <<cacheVars, agentVars, chatVars, toolVars>>

(***************************************************************************)
(* process_pdf_directory (src/basicModel.py): every page of every .pdf of  *)
(* the directory is added to the vector store.  A directory is the         *)
(* sequence of its entries in os.listdir order.                            *)
(***************************************************************************)
PathT == <<3, 8>>
IsPdf(filename) == filename[Len(filename)] = 9
DirFiles == [path : Paths \cup {PathT}, bytes : FileBytes]
\* One file; a file and its renamed copy; a file that is no PDF and a PDF.
Directories ==
    {<<f>> : f \in DirFiles} \cup
    {<<[path |-> PathA, bytes |-> b], [path |-> PathB, bytes |-> b]>> : b \in FileBytes} \cup
    {<<[path |-> PathT, bytes |-> Bytes1], [path |-> PathA, bytes |-> Bytes1]>>}

RECURSIVE add_pages(_, _, _, _)
add_pages(st, filename, pages, page_num) ==
    IF page_num >= Len(pages) THEN st
    ELSE add_pages(
            VectorStore_add_document(st, Str(pages[page_num + 1]),
                PageMeta(filename, page_num + 1, pages[page_num + 1])),
            filename, pages, page_num + 1)

RECURSIVE process_pdf_directory(_, _)
process_pdf_directory(st, dir) ==
    IF dir = <<>> THEN st
    ELSE LET f == Head(dir)
         IN  process_pdf_directory(
                IF IsPdf(f.path) THEN add_pages(st, f.path, Extract(f.bytes), 0)
                ELSE st,
                Tail(dir))

ProcessPdfDirectory(dir) ==
    LET st == process_pdf_directory(TheStore, dir)
    IN  /\ Len(st.index) <= MaxVectors
        /\ Install(st)
        /\ found' = [op |-> "ingest", dir |-> dir, raised |-> FALSE]
        /\ UNCHANGED thread
        /\ UNCHANGED <<cacheVars, agentVars, chatVars, toolVars>>

IndexNext ==
    \/ \E text \in AddInputs, meta \in Metas : Add(text, meta)
    \/ \E query \in Queries, k \in Ks : Search(query, k)
    \/ \E dir \in Directories : ProcessPdfDirectory(dir)

(***************************************************************************)
(* add_document run by several threads at once.  Nothing in the class      *)
(* holds a lock, so a thread can be preempted between its statements: the  *)
(* encoding, index.add and metadata.extend are separate steps.             *)
(***************************************************************************)
\* The rows the threads have encoded or stored but not yet finished.
RECURSIVE PendingRows(_)
PendingRows(ts) ==
    IF ts = {} THEN 0
    ELSE LET t == CHOOSE u \in ts : TRUE
         IN  (IF thread[t].pc = "idle" THEN 0
              ELSE Len(embeddings_of(thread[t].text).rows))
             + PendingRows(ts \ {t})

\* Lines 22-24: embeddings = self._model.encode(text), reshaped.
AddEncode(t, text, meta) ==
    /\ thread[t].pc = "idle"
    /\ Len(index) + PendingRows(Threads) + Len(embeddings_of(text).rows)
          <= MaxVectors
    /\ thread' = [thread EXCEPT ![t] = [pc |-> "encoded", text |-> text, meta |-> meta]]
    /\ found' = NoCall
    /\ UNCHANGED <<index, metadata, adds, owner>>
    /\ UNCHANGED <<cacheVars, agentVars, chatVars, toolVars>>

\* Line 25: self.index.add(embeddings); a refused add ends the call.
AddIndex(t) ==
    /\ thread[t].pc = "encoded"
    /\ LET x == embeddings_of(thread[t].text)
       IN  IF index_add_ok(x)
           THEN /\ index' = index \o x.rows
                /\ adds' = Append(adds, [text |-> thread[t].text, meta |-> thread[t].meta])
                /\ owner' = owner \o [i \in 1 .. Len(x.rows) |-> Len(adds) + 1]
                /\ thread' = [thread EXCEPT ![t].pc = "added"]
           ELSE /\ thread' = [thread EXCEPT ![t] = [pc |-> "idle"]]
                /\ UNCHANGED <<index, adds, owner>>
    /\ found' = NoCall
    /\ UNCHANGED metadata
    /\ UNCHANGED <<cacheVars, agentVars, chatVars, toolVars>>

\* Line 26: self.metadata.extend([metadata]*len(embeddings)).
AddMetadata(t) ==
    /\ thread[t].pc = "added"
    /\ metadata' = metadata_extend(metadata, embeddings_of(thread[t].text), thread[t].meta)
    /\ thread' = [thread EXCEPT ![t] = [pc |-> "idle"]]
    /\ found' = NoCall
    /\ UNCHANGED <<index, adds, owner>>
    /\ UNCHANGED <<cacheVars, agentVars, chatVars, toolVars>>

ConcurrentAddNext ==
    \/ \E t \in Threads, text \in AddInputs, meta \in Metas : AddEncode(t, text, meta)
    \/ \E t \in Threads : AddIndex(t)
    \/ \E t \in Threads : AddMetadata(t)
    \/ \E query \in Queries, k \in Ks : Search(query, k)

(***************************************************************************)
(*                        Claims about VectorStore                         *)
(***************************************************************************)
\* The two sequences have the same length, and the metadata at position i
\* is the one passed in the add call that stored the embedding at i.
Aligned ==
    /\ Len(metadata) = Len(index)
    /\ \A i \in 1 .. Len(index) :
          /\ metadata[i] = adds[owner[i]].meta
          /\ \E r \in 1 .. Len(embeddings_of(adds[owner[i]].text).rows) :
                index[i] = embeddings_of(adds[owner[i]].text).rows[r]

\* C2: under any interleaving of concurrent add_document calls, at every
\* point another operation can observe, the embedding sequence and the
\* metadata sequence have the same length and are index-aligned.
C2_NeverDesynchronized ==
    /\ Len(metadata) = Len(index)
    /\ \A i \in 1 .. Min(Len(index), Len(metadata)) :
          metadata[i] = adds[owner[i]].meta

\* C3: after any sequence of completed add_document calls (single-text or
\* multi-text, directly or through process_pdf_directory) the number of
\* stored embeddings equals the length of the metadata list and the two
\* are index-aligned.
C3_AlignedAfterAdds ==
    (\A t \in Threads : thread[t].pc = "idle") => Aligned

\* C3, its case: a multi-text add and a single-text add have completed.
C3_Witness ==
    /\ found.op = "add"
    /\ ~found.raised
    /\ Len(index) >= 3
    /\ \E c \in 1 .. Len(adds) : ~adds[c].text.str
    /\ \E c \in 1 .. Len(adds) : adds[c].text.str

\* The search call that has just returned gave a list.
Returned == found.op = "search" /\ found.out.raise = ""

\* C4: on a non-empty index of n vectors, for k >= 1, search returns
\* exactly min(k, n) results, each the (metadata, distance) pair of a
\* distinct stored vector, by non-decreasing distance, and they are the
\* k nearest of the stored set.
C4_SearchReturnsNearest ==
    (found.op = "search" /\ Len(index) >= 1 /\ found.k >= 1) =>
        /\ Returned
        /\ LET n == Len(index)
               q == encode_one(found.query)
               res == found.out.value
           IN  /\ Len(res) = Min(found.k, n)
               /\ \A i, j \in 1 .. Len(res) :
                     i < j => res[i].distance <= res[j].distance
               /\ \E o \in [1 .. Len(res) -> 1 .. n] :
                     /\ \A i, j \in 1 .. Len(res) : i # j => o[i] # o[j]
                     /\ \A i \in 1 .. Len(res) :
                           /\ res[i].meta = metadata[o[i]]
                           /\ res[i].distance = L2(index[o[i]], q)
                     /\ \A l \in 1 .. n :
                           (\A i \in 1 .. Len(res) : o[i] # l) =>
                               \A i \in 1 .. Len(res) :
                                   res[i].distance <= L2(index[l], q)

\* C5: search on an index to which nothing has been added returns an empty
\* sequence and never raises (stated here for every k >= 1).
C5_EmptyIndexSearch ==
    (found.op = "search" /\ adds = <<>> /\ Len(index) = 0 /\ found.k >= 1) =>
        /\ Returned
        /\ found.out.value = <<>>

\* C20: an add whose embeddings do not have the index's dimension fails,
\* and the step leaves the embedding sequence and the metadata sequence
\* as they were.
C20_FailedAddLeavesStore ==
    [][(found'.op = "add" /\ ~index_add_ok(embeddings_of(found'.text))) =>
          /\ found'.raised
          /\ index' = index
          /\ metadata' = metadata]_vars

\* C20, its case: an add of embeddings of another dimension has failed on
\* a store that holds vectors.
C20_Witness ==
    /\ found.op = "add"
    /\ embeddings_of(found.text).shape[2] # Dimension
    /\ found.raised
    /\ Len(index) >= 2

(***************************************************************************)
(*                          AgentOrchestrator                              *)
(***************************************************************************)
\* AgentExecutor is built without max_iterations, so the executor's own
\* default applies.
MaxIterations == 15

MaxExchanges == 2

\* The request threads that may be inside answer() at once.
Calls == {1, 2}
Sessions == {"A", "B"}
Messages == {5}
ToolQueries == {8}
TopKs == {-1, 1, 2}

\* The persisted index the process loads at boot: text chunks with their
\* source file and page.
Corpus ==
    <<[source |-> PathA, page |-> 1, text |-> 5],
      [source |-> PathA, page |-> 2, text |-> 6],
      [source |-> PathB, page |-> 1, text |-> 8]>>

\* What the generation collaborator can produce in one reasoning step: a
\* final answer, a call of the retriever tool, a call of a tool that does
\* not exist, text that cannot be parsed, or a failed call.
LLMOutputs == {"final", "action", "invalid_tool", "malformed", "error"}

Idle ==
    [pc |-> "idle", user_message |-> 0, session_id |-> "", top_k |-> 0,
     xid |-> 0, history |-> <<>>, iterations |-> 0, out |-> "",
     hpos |-> 0, apos |-> 0, retrieved |-> <<>>, citations |-> <<>>,
     last |-> "", observation |-> "", user_doc_hint |-> <<>>,
     stream |-> FALSE, events |-> <<>>]

\* The call has ended with an exception: its locals are gone.
Raised == [Idle EXCEPT !.pc = "raised"]

\* self.retriever.invoke(query) with search_kwargs k: the store's k nearest
\* chunks (the library drops the unfilled slots), or an exception.
retriever_invoke(query, k) ==
    LET idx == [i \in 1 .. Len(store) |-> encode_one(store[i].text)]
        xq == reshape_row(encode(Str(query)))
        docs(r) ==
            IF r.raise # "" THEN r
            ELSE [raise |-> "",
                  value |-> [i \in 1 .. Cardinality({j \in 1 .. Len(r.hits) :
                                                      r.hits[j].label # -1}) |->
                               store[r.hits[i].label + 1]]]
    IN  {docs(r) : r \in faiss_search(idx, xq, k)}

\* Python's list[:n].
SliceTo(list, n) ==
    IF n >= 0 THEN SubSeq(list, 1, Min(n, Len(list)))
    ELSE SubSeq(list, 1, Len(list) + n)

\* answer, lines 116-123: one citation per document of retrieved[:top_k].
cites(retrieved, top_k) ==
    LET cut == SliceTo(retrieved, top_k)
    IN  [i \in 1 .. Len(cut) |->
            [filename |-> cut[i].source, page |-> cut[i].page, score |-> None]]

\* A plausible slip: the executor is built with max_iterations=None.
should_continue_Unbounded(iterations) == TRUE

\* AgentExecutor._should_continue
should_continue(iterations) == iterations < MaxIterations

\* The observation the executor hands back to the model after a pass that
\* did not end the loop: the tool's result, the InvalidTool message, or,
\* with handle_parsing_errors=True, the parsing-error message.
observation_of(output) ==
    CASE output = "action" -> "documents"
      [] output = "invalid_tool" -> "not a valid tool"
      [] output = "malformed" -> "Invalid or incomplete response"
      [] OTHER -> ""

\* A plausible slip: handle_parsing_errors left at its default (False), so
\* that unparseable text raises out of the executor.
pass_results_Strict(output, k) ==
    CASE output = "final" -> {"final"}
      [] output \in {"error", "malformed"} -> {"raise"}
      [] output = "action" ->
            UNION {{IF r.raise # "" THEN "raise" ELSE "next"} :
                     r \in UNION {retriever_invoke(q, k) : q \in ToolQueries}}
      [] OTHER -> {"next"}

\* One pass of the executor's loop on the model's output: "final" ends the
\* exchange, a failed generation call or a raising tool raises out of it,
\* and everything else (a tool call, an unknown tool, unparseable text,
\* which handle_parsing_errors=True turns into an observation) costs one
\* iteration.
pass_results(output, k) ==
    CASE output = "final" -> {"final"}
      [] output = "error" -> {"raise"}
      [] output = "action" ->
            UNION {{IF r.raise # "" THEN "raise" ELSE "next"} :
                     r \in UNION {retriever_invoke(q, k) : q \in ToolQueries}}
      [] OTHER -> {"next"}

\* The ways executor.invoke can end from iteration i on: "natural" (the
\* model gave a final answer), "forced" (the iteration limit stopped it)
\* or "raise".
RECURSIVE executor_outcomes(_, _)
executor_outcomes(i, k) ==
    IF ~should_continue(i) THEN {"forced"}
    ELSE LET passes == UNION {pass_results(o, k) : o \in LLMOutputs}
             later == executor_outcomes(i + 1, k)
         IN  (IF "final" \in passes THEN {"natural"} ELSE {})
             \cup (IF "raise" \in passes THEN {"raise"} ELSE {})
             \cup (IF "next" \in passes THEN later ELSE {})

\* The text the executor returns.
OutputText(out) == IF out = "forced" THEN "Agent stopped" ELSE "Final Answer"

HumanTurn(c) ==
    [role |-> "human", content |-> call[c].user_message,
     xid |-> call[c].xid, session |-> call[c].session_id]
AITurn(c) ==
    [role |-> "ai", content |-> OutputText(call[c].out),
     xid |-> call[c].xid, session |-> call[c].session_id]

AgentFrame == UNCHANGED <<cacheVars, indexVars, chatVars, toolVars>>

\* The thread is not inside answer(): it has not been called yet, or its
\* last call has returned a result ("done") or raised ("raised").
Free(c) == call[c].pc \in {"idle", "done", "raised"}

\* answer, lines 106-111: the shared retriever's k is set to this call's
\* top_k and the inputs are built.  A request is served by the lowest free
\* thread.
Answer(c, user_message, session_id, top_k) ==
    /\ Free(c)
    /\ \A d \in Calls : d < c => ~Free(d)
    /\ started < MaxExchanges
    /\ started' = started + 1
    /\ retriever_k' = top_k
    /\ call' = [call EXCEPT ![c] =
                  [Idle EXCEPT !.pc = "invoke", !.user_message = user_message,
                               !.session_id = session_id, !.top_k = top_k,
                               !.xid = started + 1]]
    /\ UNCHANGED <<store, memory>>
    /\ AgentFrame

\* executor.invoke, first part: the chat history is read from the memory.
LoadMemory(c) ==
    /\ call[c].pc = "invoke"
    /\ call' = [call EXCEPT ![c].pc = "loop", ![c].history = memory]
    /\ UNCHANGED <<store, retriever_k, memory, started>>
    /\ AgentFrame

\* One pass of the executor's loop.
Plan(c, output) ==
    /\ call[c].pc = "loop"
    /\ should_continue(call[c].iterations)
    /\ \E r \in pass_results(output, retriever_k) :
          call' = [call EXCEPT ![c] =
                     CASE r = "final" -> [@ EXCEPT !.pc = "save", !.out = "natural",
                                                   !.iterations = 0,
                                                   !.last = output,
                                                   !.observation = ""]
                       [] r = "raise" -> [Raised EXCEPT !.last = output]
                       [] OTHER -> [@ EXCEPT !.iterations = @ + 1,
                                             !.last = output,
                                             !.observation = observation_of(output)]]
    /\ UNCHANGED <<store, retriever_k, memory, started>>
    /\ AgentFrame

\* The loop ends at the iteration limit: the stopped response is returned.
Stop(c) ==
    /\ call[c].pc = "loop"
    /\ ~should_continue(call[c].iterations)
    /\ call' = [call EXCEPT ![c].pc = "save", ![c].out = "forced",
                            ![c].iterations = 0, ![c].last = "",
                            ![c].observation = ""]
    /\ UNCHANGED <<store, retriever_k, memory, started>>
    /\ AgentFrame

\* The executor's loop from start to end, as one step.
Executor(c) ==
    /\ call[c].pc = "loop"
    /\ \E out \in executor_outcomes(0, retriever_k) :
          call' = [call EXCEPT ![c] =
                     IF out = "raise" THEN Raised
                     ELSE [@ EXCEPT !.pc = "save", !.out = out]]
    /\ UNCHANGED <<store, retriever_k, memory, started>>
    /\ AgentFrame

\* executor.invoke, last part: memory.save_context appends the human
\* message ...
SaveHuman(c) ==
    /\ call[c].pc = "save"
    /\ memory' = Append(memory, HumanTurn(c))
    /\ call' = [call EXCEPT ![c].pc = "save_ai", ![c].hpos = Len(memory) + 1,
                            ![c].history = <<>>]
    /\ UNCHANGED <<store, retriever_k, started>>
    /\ AgentFrame

\* The last chunk of executor.stream, which stream_answer yields as it
\* is: the executor's output and the messages that go with it.
final_event(out) ==
    [keys |-> {"output", "messages"}, output |-> OutputText(out)]

\* ... and then the assistant's message.  A streamed call then yields the
\* executor's last chunk and is over; the chunks before it, one per tool
\* call and per observation, carry no key other than actions, steps and
\* messages and are left out.
SaveAI(c) ==
    /\ call[c].pc = "save_ai"
    /\ memory' = Append(memory, AITurn(c))
    /\ call' = [call EXCEPT ![c].pc = IF call[c].stream THEN "done" ELSE "cite",
                            ![c].apos = Len(memory) + 1,
                            ![c].events = IF call[c].stream
                                          THEN Append(@, final_event(call[c].out))
                                          ELSE @]
    /\ UNCHANGED <<store, retriever_k, started>>
    /\ AgentFrame

\* answer, lines 115-129: the retriever is run on the user's message and
\* the citations are built from what it returns.
Cite(c) ==
    /\ call[c].pc = "cite"
    /\ \E r \in retriever_invoke(call[c].user_message, retriever_k) :
          call' = [call EXCEPT ![c] =
                     IF r.raise # "" THEN Raised
                     ELSE [@ EXCEPT !.pc = "done", !.retrieved = r.value,
                                    !.citations = cites(r.value, call[c].top_k)]]
    /\ UNCHANGED <<store, retriever_k, memory, started>>
    /\ AgentFrame

\* stream_answer, lines 138-151: the same entry as answer, then the
\* executor's events are passed on as they come; no citations are built.
StreamAnswer(c, user_message, session_id, top_k) ==
    /\ Free(c)
    /\ \A d \in Calls : d < c => ~Free(d)
    /\ http[c].status # 0
    /\ started < MaxExchanges
    /\ started' = started + 1
    /\ retriever_k' = top_k
    /\ call' = [call EXCEPT ![c] =
                  [Idle EXCEPT !.pc = "invoke", !.user_message = user_message,
                               !.session_id = session_id, !.top_k = top_k,
                               !.xid = started + 1, !.stream = TRUE]]
    /\ UNCHANGED <<store, memory>>
    /\ AgentFrame

(***************************************************************************)
(* The /chat route (src/Api.py).  A string of the request is a sequence    *)
(* of characters, SP being a blank; the texts the agent works on are the   *)
(* one-word messages.                                                      *)
(***************************************************************************)
SP == 0
RawMessages == {<<>>, <<SP, SP>>, <<SP, 5, SP>>}

RECURSIVE lstrip(_)
lstrip(s) == IF s # <<>> /\ Head(s) = SP THEN lstrip(Tail(s)) ELSE s
RECURSIVE rstrip(_)
rstrip(s) ==
    IF s # <<>> /\ s[Len(s)] = SP THEN rstrip(SubSeq(s, 1, Len(s) - 1)) ELSE s
\* str.strip()
strip(s) == rstrip(lstrip(s))

\* The text of a stripped, non-empty message.
text_of(msg) == msg[1]

\* request.files.get("user_pdf"): nothing, a PDF, or a file that is none.
PdfUpload == Some([filename |-> PathA, bytes |-> Bytes1])
TxtUpload == Some([filename |-> PathT, bytes |-> Bytes2])

\* data.get("top_k") of a JSON body: absent, zero, negative, small, large.
JsonTopKs == {None, Some(0), Some(-1), Some(2), Some(100)}

\* The requests: multipart forms and JSON bodies.
ChatRequests ==
    [multipart : {TRUE}, message : RawMessages, session_id : {"A"},
     user_pdf : {None, PdfUpload, TxtUpload}, user_doc_text : {None},
     top_k : {None}]
    \cup
    [multipart : {FALSE}, message : RawMessages, session_id : {"A"},
     user_pdf : {None}, user_doc_text : {None, Some(<<6>>)},
     top_k : JsonTopKs]

NoRequest == [req |-> NoCall, xid |-> 0, status |-> -1]

\* A plausible slip: the pages of the upload are also added to the index.
chat_upload_Indexed(st, log, xid, req) ==
    IF req.user_pdf # None /\ IsPdf(req.user_pdf.value.filename)
    THEN LET pages == Extract(req.user_pdf.value.bytes)
         IN  [store |-> st \o [i \in 1 .. Len(pages) |->
                                  [source |-> req.user_pdf.value.filename,
                                   page |-> i, text |-> pages[i]]],
              log |-> Append(log, [xid |-> xid,
                                   temp_path |-> md5(req.user_pdf.value.bytes)]),
              user_doc_text |-> Some(pages)]
    ELSE [store |-> st, log |-> log, user_doc_text |-> req.user_doc_text]

\* chat, lines 509-524, on a multipart request: an upload whose name ends
\* in .pdf is saved under UPLOAD_DIR, read by pdf.process_pdf and removed,
\* and the text of its pages becomes user_doc_text; any other upload is
\* passed over and the form's user_doc_text is taken.  The vector store
\* st is not written.
chat_upload(st, log, xid, req) ==
    IF req.user_pdf # None /\ IsPdf(req.user_pdf.value.filename)
    THEN LET pages == Extract(req.user_pdf.value.bytes)
         IN  [store |-> st,
              log |-> Append(log, [xid |-> xid,
                                   temp_path |-> md5(req.user_pdf.value.bytes)]),
              user_doc_text |-> Some(pages)]
    ELSE [store |-> st, log |-> log, user_doc_text |-> req.user_doc_text]

\* chat, line 530: int(data.get("top_k") or 6)
json_top_k(v) == IF v = None \/ v.value = 0 THEN 6 ELSE v.value

\* _make_user_doc_hint: no hint for None or an empty text.
_make_user_doc_hint(text) == IF text = None THEN <<>> ELSE text.value

\* chat, lines 503-540: the request is read, an uploaded PDF is processed,
\* and then either the empty message is refused with 400 or agent.answer
\* is entered (its line 106 sets the shared retriever's k).
ChatRequest(c, req) ==
    /\ Free(c)
    /\ \A d \in Calls : d < c => ~Free(d)
    /\ http[c].status # 0
    /\ started < MaxExchanges
    /\ started' = started + 1
    /\ LET xid == started + 1
           msg == strip(req.message)
           up == IF req.multipart
                 THEN chat_upload(store, upload_log, xid, req)
                 ELSE [store |-> store, log |-> upload_log,
                       user_doc_text |-> req.user_doc_text]
           top_k == IF req.multipart THEN 6 ELSE json_top_k(req.top_k)
       IN  /\ store' = up.store
           /\ upload_log' = up.log
           /\ IF msg = <<>>
              THEN /\ http' = [http EXCEPT ![c] =
                                 [req |-> req, xid |-> xid, status |-> 400]]
                   /\ call' = [call EXCEPT ![c] = Idle]
                   /\ UNCHANGED retriever_k
              ELSE /\ http' = [http EXCEPT ![c] =
                                 [req |-> req, xid |-> xid, status |-> 0]]
                   /\ retriever_k' = top_k
                   /\ call' = [call EXCEPT ![c] =
                                 [Idle EXCEPT
                                    !.pc = "invoke",
                                    !.user_message = text_of(msg),
                                    !.session_id = req.session_id,
                                    !.top_k = top_k,
                                    !.xid = xid,
                                    !.user_doc_hint =
                                        _make_user_doc_hint(up.user_doc_text)]]
    /\ UNCHANGED memory
    /\ UNCHANGED <<cacheVars, indexVars, toolVars>>

\* chat, lines 541-546: the result of agent.answer is returned, or its
\* exception is turned into a 500 response.
ChatRespond(c) ==
    /\ http[c].status = 0
    /\ call[c].pc \in {"done", "raised"}
    /\ http' = [http EXCEPT ![c].status =
                  IF call[c].pc = "done" THEN 200 ELSE 500]
    /\ UNCHANGED <<upload_log, agentVars, cacheVars, indexVars, toolVars>>

\* One exchange at a time, the executor's loop pass by pass.
LoopNext ==
    \/ \E m \in Messages, sid \in Sessions, k \in TopKs : Answer(1, m, sid, k)
    \/ LoadMemory(1)
    \/ \E o \in LLMOutputs : Plan(1, o)
    \/ Stop(1)
    \/ SaveHuman(1)
    \/ SaveAI(1)
    \/ Cite(1)

\* Concurrent exchanges on the one orchestrator of the process.
AgentNext ==
    \/ \E c \in Calls, m \in Messages, sid \in Sessions, k \in TopKs :
          Answer(c, m, sid, k)
    \/ \E c \in Calls : LoadMemory(c)
    \/ \E c \in Calls : Executor(c)
    \/ \E c \in Calls : SaveHuman(c)
    \/ \E c \in Calls : SaveAI(c)
    \/ \E c \in Calls : Cite(c)

\* The /chat route serving one request after the other, and direct
\* stream_answer calls.
ChatNext ==
    \/ \E req \in ChatRequests : ChatRequest(1, req)
    \/ \E m \in Messages, sid \in Sessions, k \in TopKs :
          StreamAnswer(1, m, sid, k)
    \/ LoadMemory(1)
    \/ Executor(1)
    \/ SaveHuman(1)
    \/ SaveAI(1)
    \/ Cite(1)
    \/ ChatRespond(1)

C11_MalformedRecovered ==
    [][\A c \in Calls :
         (call[c].pc = "loop" /\ call'[c] # call[c]) =>
            /\ call'[c].last = "malformed" =>
                  /\ call'[c].pc = "loop"
                  /\ call'[c].iterations = call[c].iterations + 1
                  /\ call'[c].iterations <= MaxIterations
                  /\ call'[c].observation = "Invalid or incomplete response"
            /\ call[c].iterations = MaxIterations =>
                  call'[c].pc = "save" /\ call'[c].out = "forced"]_vars

\* C11, its case: the pass that used up the last iteration ended on
\* unparseable text, and the loop is still the one to decide.
C11_Witness ==
    /\ call[1].pc = "loop"
    /\ call[1].last = "malformed"
    /\ call[1].iterations = MaxIterations

\* C12: a failed generation call inside the loop never ends the exchange
\* with the collaborator's error: no call is left by an exception after
\* the model's step failed.
C12_GenerationFailureRecovered ==
    \A c \in Calls : call[c].pc = "raised" => call[c].last # "error"

\* C8: the citations of every returned answer are at most top_k, and each
\* is the filename/page of a passage the retriever returned for the
\* original user message.
C8_CitationsWithinTopK ==
    \A c \in Calls :
        call[c].pc = "done" =>
            /\ Len(call[c].citations) <= call[c].top_k
            /\ \E k \in TopKs :
                  [raise |-> "", value |-> call[c].retrieved]
                      \in retriever_invoke(call[c].user_message, k)
            /\ \A i \in 1 .. Len(call[c].citations) :
                  \E j \in 1 .. Len(call[c].retrieved) :
                      /\ call[c].citations[i].filename = call[c].retrieved[j].source
                      /\ call[c].citations[i].page = call[c].retrieved[j].page

\* C23: the events a finished stream_answer call has yielded carry what
\* answer returns for the same inputs: the final answer text in some
\* event, and the citations in some event.
C23_StreamCarriesAnswerAndCitations ==
    \A c \in Calls :
        (call[c].stream /\ call[c].pc = "done") =>
            /\ \E i \in DOMAIN call[c].events :
                  /\ "output" \in call[c].events[i].keys
                  /\ call[c].events[i].output = OutputText(call[c].out)
            /\ \E i \in DOMAIN call[c].events :
                  "citations" \in call[c].events[i].keys

\* C25: a call retrieves with its own top_k: the passages retrieved for
\* the citations of a returned answer are what the retriever returns for
\* the call's message with k = the call's top_k, whatever the top_k of the
\* calls running beside it.
C25_OwnTopK ==
    \A c \in Calls :
        call[c].pc = "done" =>
            [raise |-> "", value |-> call[c].retrieved]
                \in retriever_invoke(call[c].user_message, call[c].top_k)

\* C9: conversation state is keyed by session: the history presented to the
\* model in an exchange holds turns of that exchange's session only.
C9_HistoryKeyedBySession ==
    \A c \in Calls :
        call[c].pc \in {"loop", "save"} =>
            \A i \in 1 .. Len(call[c].history) :
                call[c].history[i].session = call[c].session_id

\* C10: each completed exchange has appended exactly one (human, assistant)
\* pair, the assistant's turn right after the human's, and the turns are
\* still where they were appended, also when exchanges run concurrently.
C10_OnePairPerExchange ==
    \A c \in Calls :
        call[c].pc \in {"cite", "done"} =>
            /\ call[c].apos = call[c].hpos + 1
            /\ call[c].apos <= Len(memory)
            /\ memory[call[c].hpos] = HumanTurn(c)
            /\ memory[call[c].apos] = AITurn(c)
            /\ Cardinality({i \in 1 .. Len(memory) : memory[i].xid = call[c].xid}) = 2

(***************************************************************************)
(*                      Claims about the /chat route                       *)
(***************************************************************************)
\* C13: the text of a user's document is never written to the vector
\* index: whatever requests and calls have run, the store holds what was
\* loaded at boot.
C13_IndexUnchanged == store = Corpus

\* C13, its case: a /chat request with an uploaded PDF has been answered,
\* the text of its pages having gone to the agent as the document hint.
C13_Witness ==
    \E c \in Calls :
        /\ http[c].status = 200
        /\ http[c].req.user_pdf = PdfUpload
        /\ call[c].pc = "done"
        /\ call[c].user_doc_hint = Extract(Bytes1)
        /\ \E i \in 1 .. Len(upload_log) : upload_log[i].xid = http[c].xid

\* C14: a /chat request whose message is empty or blank is refused with a
\* client error, the agent is not entered, and no upload of the request
\* has been written or processed.
C14_EmptyMessageNoSideEffects ==
    \A c \in Calls :
        (http[c].xid # 0 /\ strip(http[c].req.message) = <<>>) =>
            /\ http[c].status = 400
            /\ call[c].pc = "idle"
            /\ \A i \in 1 .. Len(upload_log) : upload_log[i].xid # http[c].xid

\* C15: a multipart /chat request whose upload is not a PDF is refused
\* with a client error and the agent is not entered for it.
C15_NonPdfUploadRejected ==
    \A c \in Calls :
        (/\ http[c].xid # 0
         /\ http[c].req.user_pdf # None
         /\ ~IsPdf(http[c].req.user_pdf.value.filename)) =>
            /\ http[c].status = 400
            /\ call[c].pc = "idle"

\* C19: whenever a call is at a point where the retriever searches the
\* index (inside the loop, or for the citations), the k it passes is
\* positive.
C19_KClamped ==
    \A c \in Calls : call[c].pc \in {"loop", "cite"} => retriever_k >= 1

(***************************************************************************)
(* QueryBuilder (src/query.py).  The text of a generation response is a    *)
(* sequence of tokens: the code fence, the language tag python, a line     *)
(* break, the brackets, query strings, and prose (words that neither       *)
(* begin nor end with a letter of "python").  The commas of a list are     *)
(* left out.                                                               *)
(***************************************************************************)
MaxQueries == 2
MaxEmitted == 3

\* The three backticks that open and close a code block.
FENCE == "fence"
NL == "\n"
QueryStrings == {"q1", "q2"}
Topics == {5}

\* The lists the model can emit: up to MaxEmitted query strings.
EmittedLists ==
    UNION {[1 .. n -> QueryStrings] : n \in 0 .. MaxEmitted}
ListLiteral(items) == <<"[">> \o items \o <<"]">>

\* The responses: a list literal, an unclosed list or plain prose, bare or
\* inside a fence with or without the language tag, with or without prose
\* around it.
Bodies ==
    {ListLiteral(items) : items \in EmittedLists}
        \cup {<<"[", "q1">>, <<"prose">>}
Fenced(body) ==
    {body, <<FENCE, NL>> \o body \o <<NL, FENCE>>,
     <<FENCE, "python", NL>> \o body \o <<NL, FENCE>>}
Responses ==
    UNION {{pre \o f \o post : pre \in {<<>>, <<"prose", NL>>},
                               post \in {<<>>, <<NL>>, <<NL, "prose">>}} :
             f \in UNION {Fenced(b) : b \in Bodies}}

\* str.strip(chars) on tokens: the tokens of the set are dropped from both
\* ends.
RECURSIVE lstrip_tokens(_, _)
lstrip_tokens(t, chars) ==
    IF t # <<>> /\ Head(t) \in chars THEN lstrip_tokens(Tail(t), chars) ELSE t
RECURSIVE rstrip_tokens(_, _)
rstrip_tokens(t, chars) ==
    IF t # <<>> /\ t[Len(t)] \in chars
    THEN rstrip_tokens(SubSeq(t, 1, Len(t) - 1), chars)
    ELSE t
strip_tokens(t, chars) == rstrip_tokens(lstrip_tokens(t, chars), chars)

\* str.split(sep): the pieces between the separators.
RECURSIVE split(_, _)
split(t, sep) ==
    IF \A i \in 1 .. Len(t) : t[i] # sep THEN <<t>>
    ELSE LET i == CHOOSE j \in 1 .. Len(t) :
                     t[j] = sep /\ \A l \in 1 .. j - 1 : t[l] # sep
         IN  <<SubSeq(t, 1, i - 1)>> \o split(SubSeq(t, i + 1, Len(t)), sep)

\* ast.literal_eval on a piece that starts with [ and ends with ]: the
\* list of its strings, or an exception when the piece is no literal.
literal_eval(piece) ==
    LET inner == strip_tokens(piece, {NL})
        items == SubSeq(inner, 2, Len(inner) - 1)
    IN  IF /\ Len(inner) >= 2
           /\ inner[1] = "["
           /\ inner[Len(inner)] = "]"
           /\ \A i \in 1 .. Len(items) : items[i] \in QueryStrings
        THEN [raise |-> "", value |-> items]
        ELSE Raise("SyntaxError")

\* convert_query, lines 19-27: the first piece that evaluates to a literal
\* is returned; when none does, the string "Invalid" is.
RECURSIVE convert_pieces(_)
convert_pieces(pieces) ==
    IF pieces = <<>> THEN [kind |-> "str", value |-> <<"Invalid">>]
    ELSE LET i == strip_tokens(Head(pieces), {"python"})
             w == strip_tokens(i, {NL})
         IN  IF /\ w # <<>>
                /\ w[1] = "["
                /\ w[Len(w)] = "]"
                /\ literal_eval(i).raise = ""
             THEN [kind |-> "list", value |-> literal_eval(i).value]
             ELSE convert_pieces(Tail(pieces))

\* QueryBuilder.convert_query
convert_query(text) == convert_pieces(split(strip_tokens(text, {NL}), FENCE))

\* QueryBuilder.get_and_process_query: the response of the generation call
\* is converted; number_of_queries only goes into the prompt.
get_and_process_query(topic, number_of_queries, response) ==
    convert_query(response)

GetAndProcessQuery(topic, number_of_queries, response) ==
    /\ plan' = [op |-> "plan", topic |-> topic,
                number_of_queries |-> number_of_queries,
                response |-> response,
                out |-> get_and_process_query(topic, number_of_queries, response)]
    /\ UNCHANGED notes
    /\ UNCHANGED <<cacheVars, indexVars, agentVars, chatVars>>

PlannerNext ==
    \E topic \in Topics, n \in 1 .. MaxQueries, response \in Responses :
        GetAndProcessQuery(topic, n, response)

(***************************************************************************)
(*                       Claims about QueryBuilder                         *)
(***************************************************************************)
\* The response is exactly a list literal: nothing but the brackets and
\* the strings between them, line breaks around it aside.  The bare fence
\* the prompt asks for is taken as part of the format.
IsListLiteral(text) ==
    LET t == strip_tokens(text, {NL})
        bare == IF Len(t) >= 2 /\ t[1] = FENCE /\ t[Len(t)] = FENCE
                THEN strip_tokens(SubSeq(t, 2, Len(t) - 1), {NL})
                ELSE t
    IN  literal_eval(bare).raise = ""

\* C16: when the response is not exactly a list literal, the planning call
\* fails with a PlanningError and returns no value.
C16_PlanningErrorOnBadOutput ==
    (plan.op = "plan" /\ ~IsListLiteral(plan.response)) =>
        plan.out = Raise("PlanningError")

\* C17: a call that returns a list returns at most number_of_queries
\* strings, pairwise distinct.
C17_AtMostMaxDistinctQueries ==
    (plan.op = "plan" /\ plan.out.kind = "list") =>
        /\ Len(plan.out.value) <= plan.number_of_queries
        /\ \A i, j \in 1 .. Len(plan.out.value) :
              i # j => plan.out.value[i] # plan.out.value[j]

(***************************************************************************)
(* NotesGenerator.generate_notes (src/processing.py): for each topic of    *)
(* the batch the vector store is searched and a generation call is made.   *)
(***************************************************************************)
MaxTopics == 2
NotesK == 10

\* The batches: up to MaxTopics topics.
TopicBatches == UNION {[1 .. n -> {5, 8}] : n \in 0 .. MaxTopics}

\* generate_notes, line 128: the call starts with no results.
GenerateNotes(topics) ==
    /\ notes.op = "notes" => notes.pc \in {"returned", "raised"}
    /\ notes' = [op |-> "notes", pc |-> "loop", topics |-> topics, i |-> 1,
                 generation_calls |-> 0, results |-> <<>>]
    /\ UNCHANGED plan
    /\ UNCHANGED <<cacheVars, indexVars, agentVars, chatVars>>

\* generate_notes, lines 129-142, one turn of the loop: the passages for
\* the topic are searched (an exception of search ends the call), a chat
\* is started, one message is sent and its text is kept.
NotesTopic ==
    /\ notes.op = "notes"
    /\ notes.pc = "loop"
    /\ notes.i <= Len(notes.topics)
    /\ \E r \in VectorStore_search(notes.topics[notes.i], NotesK) :
          notes' = IF r.raise # "" THEN [notes EXCEPT !.pc = "raised"]
                   ELSE [notes EXCEPT
                           !.i = @ + 1,
                           !.generation_calls = @ + 1,
                           !.results = Append(@, notes.topics[notes.i])]
    /\ UNCHANGED plan
    /\ UNCHANGED <<cacheVars, indexVars, agentVars, chatVars>>

\* generate_notes, line 143: the results are returned.
NotesReturn ==
    /\ notes.op = "notes"
    /\ notes.pc = "loop"
    /\ notes.i > Len(notes.topics)
    /\ notes' = [notes EXCEPT !.pc = "returned"]
    /\ UNCHANGED plan
    /\ UNCHANGED <<cacheVars, indexVars, agentVars, chatVars>>

\* Notes are generated from a store that documents are added to.
NotesNext ==
    \/ \E text \in AddInputs, meta \in Metas : Add(text, meta)
    \/ \E topics \in TopicBatches : GenerateNotes(topics)
    \/ NotesTopic
    \/ NotesReturn

\* C18: a generate_notes call on a batch of one or more topics that has
\* returned has issued exactly one generation call, however many topics
\* the batch has.
C18_OneGenerationCallPerBatch ==
    (notes.op = "notes" /\ notes.pc = "returned" /\ Len(notes.topics) >= 1) =>
        notes.generation_calls = 1

(***************************************************************************)
(*                           Specifications                                *)
(***************************************************************************)
\* The state after construction: DocumentCache(), VectorStore() and
\* AgentOrchestrator(key, vector_store).
Init ==
    /\ cache = <<>>
    /\ now = 0
    /\ ticks = 0
    /\ puts = <<>>
    /\ got = NoCall
    /\ unswept = <<>>
    /\ sweep = [pc |-> "idle", now |-> 0, size |-> 0, todo |-> {}, expired |-> {}]
    /\ index = <<>>
    /\ metadata = <<>>
    /\ adds = <<>>
    /\ owner = <<>>
    /\ thread = [t \in Threads |-> [pc |-> "idle"]]
    /\ found = NoCall
    /\ store = Corpus
    /\ retriever_k = 6
    /\ memory = <<>>
    /\ call = [c \in Calls |-> Idle]
    /\ started = 0
    /\ http = [c \in Calls |-> NoRequest]
    /\ upload_log = <<>>
    /\ plan = NoCall
    /\ notes = NoCall

SpecCache == Init /\ [][CacheNext]_vars

SpecConcurrentCache == Init /\ [][ConcurrentCacheNext]_vars

SpecIndex == Init /\ [][IndexNext]_vars

SpecConcurrentAdd == Init /\ [][ConcurrentAddNext]_vars

SpecLoop == Init /\ [][LoopNext]_vars

SpecAgent == Init /\ [][AgentNext]_vars

SpecChat == Init /\ [][ChatNext]_vars

SpecPlanner == Init /\ [][PlannerNext]_vars

SpecNotes == Init /\ [][NotesNext]_vars

====
